---- MODULE Spec2Model ----
(***************************************************************************)
(* Model of scripts/run_daily.py: the O2 live-check run (run_check/main),  *)
(* its submission gate, the daily marker file data/.last_submit_date and   *)
(* the result classifier.                                                  *)
(*                                                                         *)
(* Text scraped from the page is a sequence of Unicode code points; log    *)
(* fields (reasons, confirmations, messages) are strings.  Calendar dates  *)
(* are day numbers, day 0 being a Monday; the ISO date written to the      *)
(* marker file is represented by its day number.                           *)
(***************************************************************************)
EXTENDS Integers, Sequences, FiniteSets, TLC

\* ---------------------------------------------------------------- bounds
MaxRuns == 3
MaxTicks == 1
StartDays == {0, 6}

\* ------------------------------------------------------------- constants
\* "Eine Basisstation in der Nähe funktioniert im Moment nicht einwandfrei."
TRIGGER_PHRASE ==
  <<69, 105, 110, 101, 32, 66, 97, 115, 105, 115, 115, 116, 97, 116, 105,
    111, 110, 32, 105, 110, 32, 100, 101, 114, 32, 78, 228, 104, 101, 32,
    102, 117, 110, 107, 116, 105, 111, 110, 105, 101, 114, 116, 32, 105,
    109, 32, 77, 111, 109, 101, 110, 116, 32, 110, 105, 99, 104, 116, 32,
    101, 105, 110, 119, 97, 110, 100, 102, 114, 101, 105, 46>>

TEMPLATES ==
  <<
      "I am reporting slow internet speeds and weak signal at my home address. The data connection is very slow and the signal strength has dropped noticeably. I suspect the nearby base station has a problem. When I go out to other parts of the city or travel to places like Munich, the speed and signal are completely normal. This issue is specific to my home location and points to a local base station fault. Please check and repair the tower serving this area.",
      "At my home I am experiencing both poor signal strength and very slow mobile internet. This was not the case before and the problem started recently. When I leave and go into the city or to other cities like Munich, everything works perfectly with strong signal and fast data. The issue is clearly with the base station near my home. Please investigate the local tower and restore normal service.",
      "I am affected by weak signal and slow data speeds at home. The internet is barely usable and the signal keeps dropping. However, when I travel to the city center or other cities such as Munich, the O2 network works without any issues. This confirms the problem is not with my device but with the local base station near my home. I request that the technical team inspect and fix the tower.",
      "My mobile signal at home has become weak and internet speeds are extremely slow. It used to work well at this location before. I have tested at other places in the city and in Munich where the network is fast and the signal is strong. This tells me the nearby base station is not functioning properly. Please send a technician to check the base station and restore the coverage at my home address.",
      "I want to report poor signal and slow internet at my home. Both the signal strength and data speed have degraded significantly at this address. The problem does not occur when I am in other areas of the city or when I visit other cities like Munich where O2 works perfectly. I believe the base station serving my home area has a fault. Please prioritize repairing the local tower so the service returns to normal."
  >>

\* the characters of TEMPLATES[i], as code points
TEMPLATE_TEXTS ==
  <<
    <<73, 32, 97, 109, 32, 114, 101, 112, 111, 114, 116, 105, 110, 103, 32,
      115, 108, 111, 119, 32, 105, 110, 116, 101, 114, 110, 101, 116, 32,
      115, 112, 101, 101, 100, 115, 32, 97, 110, 100, 32, 119, 101, 97, 107,
      32, 115, 105, 103, 110, 97, 108, 32, 97, 116, 32, 109, 121, 32, 104,
      111, 109, 101, 32, 97, 100, 100, 114, 101, 115, 115, 46, 32, 84, 104,
      101, 32, 100, 97, 116, 97, 32, 99, 111, 110, 110, 101, 99, 116, 105,
      111, 110, 32, 105, 115, 32, 118, 101, 114, 121, 32, 115, 108, 111,
      119, 32, 97, 110, 100, 32, 116, 104, 101, 32, 115, 105, 103, 110, 97,
      108, 32, 115, 116, 114, 101, 110, 103, 116, 104, 32, 104, 97, 115, 32,
      100, 114, 111, 112, 112, 101, 100, 32, 110, 111, 116, 105, 99, 101,
      97, 98, 108, 121, 46, 32, 73, 32, 115, 117, 115, 112, 101, 99, 116,
      32, 116, 104, 101, 32, 110, 101, 97, 114, 98, 121, 32, 98, 97, 115,
      101, 32, 115, 116, 97, 116, 105, 111, 110, 32, 104, 97, 115, 32, 97,
      32, 112, 114, 111, 98, 108, 101, 109, 46, 32, 87, 104, 101, 110, 32,
      73, 32, 103, 111, 32, 111, 117, 116, 32, 116, 111, 32, 111, 116, 104,
      101, 114, 32, 112, 97, 114, 116, 115, 32, 111, 102, 32, 116, 104, 101,
      32, 99, 105, 116, 121, 32, 111, 114, 32, 116, 114, 97, 118, 101, 108,
      32, 116, 111, 32, 112, 108, 97, 99, 101, 115, 32, 108, 105, 107, 101,
      32, 77, 117, 110, 105, 99, 104, 44, 32, 116, 104, 101, 32, 115, 112,
      101, 101, 100, 32, 97, 110, 100, 32, 115, 105, 103, 110, 97, 108, 32,
      97, 114, 101, 32, 99, 111, 109, 112, 108, 101, 116, 101, 108, 121, 32,
      110, 111, 114, 109, 97, 108, 46, 32, 84, 104, 105, 115, 32, 105, 115,
      115, 117, 101, 32, 105, 115, 32, 115, 112, 101, 99, 105, 102, 105, 99,
      32, 116, 111, 32, 109, 121, 32, 104, 111, 109, 101, 32, 108, 111, 99,
      97, 116, 105, 111, 110, 32, 97, 110, 100, 32, 112, 111, 105, 110, 116,
      115, 32, 116, 111, 32, 97, 32, 108, 111, 99, 97, 108, 32, 98, 97, 115,
      101, 32, 115, 116, 97, 116, 105, 111, 110, 32, 102, 97, 117, 108, 116,
      46, 32, 80, 108, 101, 97, 115, 101, 32, 99, 104, 101, 99, 107, 32, 97,
      110, 100, 32, 114, 101, 112, 97, 105, 114, 32, 116, 104, 101, 32, 116,
      111, 119, 101, 114, 32, 115, 101, 114, 118, 105, 110, 103, 32, 116,
      104, 105, 115, 32, 97, 114, 101, 97, 46>>,
    <<65, 116, 32, 109, 121, 32, 104, 111, 109, 101, 32, 73, 32, 97, 109,
      32, 101, 120, 112, 101, 114, 105, 101, 110, 99, 105, 110, 103, 32, 98,
      111, 116, 104, 32, 112, 111, 111, 114, 32, 115, 105, 103, 110, 97,
      108, 32, 115, 116, 114, 101, 110, 103, 116, 104, 32, 97, 110, 100, 32,
      118, 101, 114, 121, 32, 115, 108, 111, 119, 32, 109, 111, 98, 105,
      108, 101, 32, 105, 110, 116, 101, 114, 110, 101, 116, 46, 32, 84, 104,
      105, 115, 32, 119, 97, 115, 32, 110, 111, 116, 32, 116, 104, 101, 32,
      99, 97, 115, 101, 32, 98, 101, 102, 111, 114, 101, 32, 97, 110, 100,
      32, 116, 104, 101, 32, 112, 114, 111, 98, 108, 101, 109, 32, 115, 116,
      97, 114, 116, 101, 100, 32, 114, 101, 99, 101, 110, 116, 108, 121, 46,
      32, 87, 104, 101, 110, 32, 73, 32, 108, 101, 97, 118, 101, 32, 97,
      110, 100, 32, 103, 111, 32, 105, 110, 116, 111, 32, 116, 104, 101, 32,
      99, 105, 116, 121, 32, 111, 114, 32, 116, 111, 32, 111, 116, 104, 101,
      114, 32, 99, 105, 116, 105, 101, 115, 32, 108, 105, 107, 101, 32, 77,
      117, 110, 105, 99, 104, 44, 32, 101, 118, 101, 114, 121, 116, 104,
      105, 110, 103, 32, 119, 111, 114, 107, 115, 32, 112, 101, 114, 102,
      101, 99, 116, 108, 121, 32, 119, 105, 116, 104, 32, 115, 116, 114,
      111, 110, 103, 32, 115, 105, 103, 110, 97, 108, 32, 97, 110, 100, 32,
      102, 97, 115, 116, 32, 100, 97, 116, 97, 46, 32, 84, 104, 101, 32,
      105, 115, 115, 117, 101, 32, 105, 115, 32, 99, 108, 101, 97, 114, 108,
      121, 32, 119, 105, 116, 104, 32, 116, 104, 101, 32, 98, 97, 115, 101,
      32, 115, 116, 97, 116, 105, 111, 110, 32, 110, 101, 97, 114, 32, 109,
      121, 32, 104, 111, 109, 101, 46, 32, 80, 108, 101, 97, 115, 101, 32,
      105, 110, 118, 101, 115, 116, 105, 103, 97, 116, 101, 32, 116, 104,
      101, 32, 108, 111, 99, 97, 108, 32, 116, 111, 119, 101, 114, 32, 97,
      110, 100, 32, 114, 101, 115, 116, 111, 114, 101, 32, 110, 111, 114,
      109, 97, 108, 32, 115, 101, 114, 118, 105, 99, 101, 46>>,
    <<73, 32, 97, 109, 32, 97, 102, 102, 101, 99, 116, 101, 100, 32, 98,
      121, 32, 119, 101, 97, 107, 32, 115, 105, 103, 110, 97, 108, 32, 97,
      110, 100, 32, 115, 108, 111, 119, 32, 100, 97, 116, 97, 32, 115, 112,
      101, 101, 100, 115, 32, 97, 116, 32, 104, 111, 109, 101, 46, 32, 84,
      104, 101, 32, 105, 110, 116, 101, 114, 110, 101, 116, 32, 105, 115,
      32, 98, 97, 114, 101, 108, 121, 32, 117, 115, 97, 98, 108, 101, 32,
      97, 110, 100, 32, 116, 104, 101, 32, 115, 105, 103, 110, 97, 108, 32,
      107, 101, 101, 112, 115, 32, 100, 114, 111, 112, 112, 105, 110, 103,
      46, 32, 72, 111, 119, 101, 118, 101, 114, 44, 32, 119, 104, 101, 110,
      32, 73, 32, 116, 114, 97, 118, 101, 108, 32, 116, 111, 32, 116, 104,
      101, 32, 99, 105, 116, 121, 32, 99, 101, 110, 116, 101, 114, 32, 111,
      114, 32, 111, 116, 104, 101, 114, 32, 99, 105, 116, 105, 101, 115, 32,
      115, 117, 99, 104, 32, 97, 115, 32, 77, 117, 110, 105, 99, 104, 44,
      32, 116, 104, 101, 32, 79, 50, 32, 110, 101, 116, 119, 111, 114, 107,
      32, 119, 111, 114, 107, 115, 32, 119, 105, 116, 104, 111, 117, 116,
      32, 97, 110, 121, 32, 105, 115, 115, 117, 101, 115, 46, 32, 84, 104,
      105, 115, 32, 99, 111, 110, 102, 105, 114, 109, 115, 32, 116, 104,
      101, 32, 112, 114, 111, 98, 108, 101, 109, 32, 105, 115, 32, 110, 111,
      116, 32, 119, 105, 116, 104, 32, 109, 121, 32, 100, 101, 118, 105, 99,
      101, 32, 98, 117, 116, 32, 119, 105, 116, 104, 32, 116, 104, 101, 32,
      108, 111, 99, 97, 108, 32, 98, 97, 115, 101, 32, 115, 116, 97, 116,
      105, 111, 110, 32, 110, 101, 97, 114, 32, 109, 121, 32, 104, 111, 109,
      101, 46, 32, 73, 32, 114, 101, 113, 117, 101, 115, 116, 32, 116, 104,
      97, 116, 32, 116, 104, 101, 32, 116, 101, 99, 104, 110, 105, 99, 97,
      108, 32, 116, 101, 97, 109, 32, 105, 110, 115, 112, 101, 99, 116, 32,
      97, 110, 100, 32, 102, 105, 120, 32, 116, 104, 101, 32, 116, 111, 119,
      101, 114, 46>>,
    <<77, 121, 32, 109, 111, 98, 105, 108, 101, 32, 115, 105, 103, 110, 97,
      108, 32, 97, 116, 32, 104, 111, 109, 101, 32, 104, 97, 115, 32, 98,
      101, 99, 111, 109, 101, 32, 119, 101, 97, 107, 32, 97, 110, 100, 32,
      105, 110, 116, 101, 114, 110, 101, 116, 32, 115, 112, 101, 101, 100,
      115, 32, 97, 114, 101, 32, 101, 120, 116, 114, 101, 109, 101, 108,
      121, 32, 115, 108, 111, 119, 46, 32, 73, 116, 32, 117, 115, 101, 100,
      32, 116, 111, 32, 119, 111, 114, 107, 32, 119, 101, 108, 108, 32, 97,
      116, 32, 116, 104, 105, 115, 32, 108, 111, 99, 97, 116, 105, 111, 110,
      32, 98, 101, 102, 111, 114, 101, 46, 32, 73, 32, 104, 97, 118, 101,
      32, 116, 101, 115, 116, 101, 100, 32, 97, 116, 32, 111, 116, 104, 101,
      114, 32, 112, 108, 97, 99, 101, 115, 32, 105, 110, 32, 116, 104, 101,
      32, 99, 105, 116, 121, 32, 97, 110, 100, 32, 105, 110, 32, 77, 117,
      110, 105, 99, 104, 32, 119, 104, 101, 114, 101, 32, 116, 104, 101, 32,
      110, 101, 116, 119, 111, 114, 107, 32, 105, 115, 32, 102, 97, 115,
      116, 32, 97, 110, 100, 32, 116, 104, 101, 32, 115, 105, 103, 110, 97,
      108, 32, 105, 115, 32, 115, 116, 114, 111, 110, 103, 46, 32, 84, 104,
      105, 115, 32, 116, 101, 108, 108, 115, 32, 109, 101, 32, 116, 104,
      101, 32, 110, 101, 97, 114, 98, 121, 32, 98, 97, 115, 101, 32, 115,
      116, 97, 116, 105, 111, 110, 32, 105, 115, 32, 110, 111, 116, 32, 102,
      117, 110, 99, 116, 105, 111, 110, 105, 110, 103, 32, 112, 114, 111,
      112, 101, 114, 108, 121, 46, 32, 80, 108, 101, 97, 115, 101, 32, 115,
      101, 110, 100, 32, 97, 32, 116, 101, 99, 104, 110, 105, 99, 105, 97,
      110, 32, 116, 111, 32, 99, 104, 101, 99, 107, 32, 116, 104, 101, 32,
      98, 97, 115, 101, 32, 115, 116, 97, 116, 105, 111, 110, 32, 97, 110,
      100, 32, 114, 101, 115, 116, 111, 114, 101, 32, 116, 104, 101, 32, 99,
      111, 118, 101, 114, 97, 103, 101, 32, 97, 116, 32, 109, 121, 32, 104,
      111, 109, 101, 32, 97, 100, 100, 114, 101, 115, 115, 46>>,
    <<73, 32, 119, 97, 110, 116, 32, 116, 111, 32, 114, 101, 112, 111, 114,
      116, 32, 112, 111, 111, 114, 32, 115, 105, 103, 110, 97, 108, 32, 97,
      110, 100, 32, 115, 108, 111, 119, 32, 105, 110, 116, 101, 114, 110,
      101, 116, 32, 97, 116, 32, 109, 121, 32, 104, 111, 109, 101, 46, 32,
      66, 111, 116, 104, 32, 116, 104, 101, 32, 115, 105, 103, 110, 97, 108,
      32, 115, 116, 114, 101, 110, 103, 116, 104, 32, 97, 110, 100, 32, 100,
      97, 116, 97, 32, 115, 112, 101, 101, 100, 32, 104, 97, 118, 101, 32,
      100, 101, 103, 114, 97, 100, 101, 100, 32, 115, 105, 103, 110, 105,
      102, 105, 99, 97, 110, 116, 108, 121, 32, 97, 116, 32, 116, 104, 105,
      115, 32, 97, 100, 100, 114, 101, 115, 115, 46, 32, 84, 104, 101, 32,
      112, 114, 111, 98, 108, 101, 109, 32, 100, 111, 101, 115, 32, 110,
      111, 116, 32, 111, 99, 99, 117, 114, 32, 119, 104, 101, 110, 32, 73,
      32, 97, 109, 32, 105, 110, 32, 111, 116, 104, 101, 114, 32, 97, 114,
      101, 97, 115, 32, 111, 102, 32, 116, 104, 101, 32, 99, 105, 116, 121,
      32, 111, 114, 32, 119, 104, 101, 110, 32, 73, 32, 118, 105, 115, 105,
      116, 32, 111, 116, 104, 101, 114, 32, 99, 105, 116, 105, 101, 115, 32,
      108, 105, 107, 101, 32, 77, 117, 110, 105, 99, 104, 32, 119, 104, 101,
      114, 101, 32, 79, 50, 32, 119, 111, 114, 107, 115, 32, 112, 101, 114,
      102, 101, 99, 116, 108, 121, 46, 32, 73, 32, 98, 101, 108, 105, 101,
      118, 101, 32, 116, 104, 101, 32, 98, 97, 115, 101, 32, 115, 116, 97,
      116, 105, 111, 110, 32, 115, 101, 114, 118, 105, 110, 103, 32, 109,
      121, 32, 104, 111, 109, 101, 32, 97, 114, 101, 97, 32, 104, 97, 115,
      32, 97, 32, 102, 97, 117, 108, 116, 46, 32, 80, 108, 101, 97, 115,
      101, 32, 112, 114, 105, 111, 114, 105, 116, 105, 122, 101, 32, 114,
      101, 112, 97, 105, 114, 105, 110, 103, 32, 116, 104, 101, 32, 108,
      111, 99, 97, 108, 32, 116, 111, 119, 101, 114, 32, 115, 111, 32, 116,
      104, 101, 32, 115, 101, 114, 118, 105, 99, 101, 32, 114, 101, 116,
      117, 114, 110, 115, 32, 116, 111, 32, 110, 111, 114, 109, 97, 108, 46>>
  >>

\* weekday() value of Monday
MONDAY == 0

\* marker file states other than a written date
NoFile == -1
EmptyFile == -2

\* ------------------------------------------------------- string helpers
\* str.lower() on the Latin-1 range
Lower(c) ==
  IF c \in 65..90 THEN c + 32
  ELSE IF c \in 192..222 /\ c # 215 THEN c + 32
  ELSE c

LowerText(t) == [i \in 1..Len(t) |-> Lower(t[i])]

\* Python's `s in t` on strings
Contains(s, t) ==
  \E i \in 0..(Len(t) - Len(s)) : SubSeq(t, i + 1, i + Len(s)) = s

\* datetime.weekday() of a day number
Weekday(d) == d % 7

\* "; ".join(errs)
RECURSIVE Join(_)
Join(errs) ==
  IF Len(errs) = 0 THEN ""
  ELSE IF Len(errs) = 1 THEN errs[1]
  ELSE errs[1] \o "; " \o Join(Tail(errs))

\* str.strip() on the inner_text values the confirmation dialog can yield
Strip(s) ==
  CASE s = " Vielen Dank! " -> "Vielen Dank!"
    [] s = "  " -> ""
    [] OTHER -> s

\* ----------------------------------------------------------- classifier
kw_stoerungsfrei == <<115, 116, 246, 114, 117, 110, 103, 115, 102, 114, 101, 105>>
kw_keine_stoerung_uml == <<107, 101, 105, 110, 101, 32, 115, 116, 246, 114, 117, 110, 103>>
kw_keine_stoerung_oe == <<107, 101, 105, 110, 101, 32, 115, 116, 111, 101, 114, 117, 110, 103>>
kw_keine_stoerungen_uml == <<107, 101, 105, 110, 101, 32, 115, 116, 246, 114, 117, 110, 103, 101, 110>>
kw_keine_stoerungen_oe == <<107, 101, 105, 110, 101, 32, 115, 116, 111, 101, 114, 117, 110, 103, 101, 110>>
kw_wartungsarbeiten == <<119, 97, 114, 116, 117, 110, 103, 115, 97, 114, 98, 101, 105, 116, 101, 110>>
kw_netzarbeiten == <<110, 101, 116, 122, 97, 114, 98, 101, 105, 116, 101, 110>>
kw_arbeiten == <<97, 114, 98, 101, 105, 116, 101, 110>>
kw_beeintraechtigungen == <<98, 101, 101, 105, 110, 116, 114, 228, 99, 104, 116, 105, 103, 117, 110, 103, 101, 110>>
kw_stoerung_uml == <<115, 116, 246, 114, 117, 110, 103>>
kw_stoerung_oe == <<115, 116, 111, 101, 114, 117, 110, 103>>

\* variant: the bare "störung" rule is tested before the "ok" rules
classify_result_outageFirst(text) ==
  LET t == LowerText(text) IN
  IF Contains(kw_stoerung_uml, t) \/ Contains(kw_stoerung_oe, t) THEN "outage"
  ELSE IF Contains(kw_stoerungsfrei, t) THEN "ok"
  ELSE IF \/ Contains(kw_keine_stoerung_uml, t)
          \/ Contains(kw_keine_stoerung_oe, t)
          \/ Contains(kw_keine_stoerungen_uml, t)
          \/ Contains(kw_keine_stoerungen_oe, t) THEN "ok"
  ELSE IF \/ Contains(kw_wartungsarbeiten, t)
          \/ Contains(kw_netzarbeiten, t)
          \/ Contains(kw_arbeiten, t)
          \/ Contains(kw_beeintraechtigungen, t) THEN "maintenance"
  ELSE "unknown"

classify_result(text) ==
  LET t == LowerText(text) IN
  IF Contains(kw_stoerungsfrei, t) THEN "ok"
  ELSE IF \/ Contains(kw_keine_stoerung_uml, t)
          \/ Contains(kw_keine_stoerung_oe, t)
          \/ Contains(kw_keine_stoerungen_uml, t)
          \/ Contains(kw_keine_stoerungen_oe, t) THEN "ok"
  ELSE IF \/ Contains(kw_wartungsarbeiten, t)
          \/ Contains(kw_netzarbeiten, t)
          \/ Contains(kw_arbeiten, t)
          \/ Contains(kw_beeintraechtigungen, t) THEN "maintenance"
  ELSE IF Contains(kw_stoerung_uml, t) \/ Contains(kw_stoerung_oe, t) THEN "outage"
  ELSE "unknown"

\* ------------------------------------------------------- marker file
\* was_submitted_today(): marker is the file's state, today the Berlin date
\* at the call, readFails whether open()/read() raises
was_submitted_today(marker, today, readFails) ==
  IF marker = NoFile THEN FALSE
  ELSE IF readFails THEN FALSE
  ELSE marker = today

WriteOutcomes == {"ok", "fail_before_open", "fail_after_truncate"}

\* variant: the date never reaches the file
mark_submitted_today_skipWrite(marker, today, outcome) ==
  IF outcome = "fail_after_truncate" THEN EmptyFile ELSE marker

\* mark_submitted_today(): the file's state after the call; a failure is
\* swallowed, either before open(..., "w") or after it truncated the file
mark_submitted_today(marker, today, outcome) ==
  CASE outcome = "ok" -> today
    [] outcome = "fail_before_open" -> marker
    [] OTHER -> EmptyFile

\* ------------------------------------------------------ Form Submitter
\* what the embedded form does during one fill_and_submit_form call
ErrLists == {<<>>, <<"Pflichtfeld", "Ungueltige Nummer">>}
DialogTexts == {"", "  ", " Vielen Dank! "}

FormOk(c, conf) ==
  [clicked |-> TRUE, form_ready |-> TRUE, comment_filled |-> TRUE,
   phone_typed |-> TRUE, has_errors |-> <<>>, submit_clicked |-> TRUE,
   post_errors |-> <<>>, confirmation |-> conf, choice |-> c]

FormEnvs ==
  LET C == 1..Len(TEMPLATES) IN
    {FormOk(c, conf) : c \in C, conf \in DialogTexts}
    \cup {[FormOk(1, "") EXCEPT !.clicked = FALSE],
          [FormOk(1, "") EXCEPT !.form_ready = FALSE]}
    \cup {[FormOk(c, "") EXCEPT !.comment_filled = FALSE] : c \in C}
    \cup {[FormOk(c, "") EXCEPT !.phone_typed = FALSE] : c \in C}
    \cup {[FormOk(c, "") EXCEPT !.has_errors = e] : c \in C, e \in ErrLists}
    \cup {[FormOk(c, "") EXCEPT !.submit_clicked = FALSE] : c \in C}
    \cup {[FormOk(c, "") EXCEPT !.post_errors = e] : c \in C, e \in ErrLists}

\* fill_and_submit_form: <<success, confirmation or reason, message>>
fill_and_submit_form(env, full_result_text, dry) ==
  IF ~env.clicked THEN <<FALSE, "form_button_not_found", "">>
  ELSE IF ~env.form_ready THEN <<FALSE, "form_not_opened", "">>
  ELSE LET message == TEMPLATES[env.choice] IN
    IF ~env.comment_filled THEN <<FALSE, "comment_not_filled", "">>
    ELSE IF ~env.phone_typed THEN <<FALSE, "phone_not_filled", message>>
    ELSE IF dry THEN <<FALSE, "dry_run_stopped_before_submit", message>>
    ELSE IF env.has_errors # <<>>
      THEN <<FALSE, "validation_errors: " \o Join(env.has_errors), message>>
    ELSE IF ~env.submit_clicked THEN <<FALSE, "submit_not_clicked", message>>
    ELSE IF env.post_errors # <<>>
      THEN <<FALSE, "validation_errors: " \o Join(env.post_errors), message>>
    ELSE LET c == Strip(env.confirmation) IN
      <<TRUE, IF c # "" THEN c ELSE "confirmation_not_found", message>>

\* variant: the text is filled in as scraped
sanitize_identity(text) == text

\* characters sanitize() replaces and what it puts in their place
SanitizeChar(c) ==
  CASE c \in {8222, 8220, 8221, 8223} -> <<34>>
    [] c \in {8218, 8216, 8217} -> <<39>>
    [] c \in {8211, 8212} -> <<45>>
    [] c = 8230 -> <<46, 46, 46>>
    [] OTHER -> <<c>>

\* sanitize(text): the chain of str.replace calls
RECURSIVE sanitize(_)
sanitize(text) ==
  IF Len(text) = 0 THEN <<>>
  ELSE IF Len(text) = 1 THEN SanitizeChar(text[1])
  ELSE LET h == Len(text) \div 2 IN
    sanitize(SubSeq(text, 1, h)) \o sanitize(SubSeq(text, h + 1, Len(text)))

\* comment = sanitize(f"{message}\n\n{full_result_text}") for template c
comment_body(c, full_result_text) ==
  sanitize(TEMPLATE_TEXTS[c] \o <<10, 10>> \o full_result_text)

\* ---------------------------------------------------------- exceptions
Exceptions ==
  {[kind |-> "RuntimeError", msg |-> "Live-Check iframe not found"],
   [kind |-> "TimeoutError", msg |-> "Timeout 60000ms exceeded"]}

\* variant: the exception's class name is left out
FormatExc_noKind(prefix, e) == prefix \o ": " \o e.msg

\* f"{prefix}: {exc.__class__.__name__}: {exc}"
FormatExc(prefix, e) == prefix \o ": " \o e.kind \o ": " \o e.msg

\* ------------------------------------------------------- submission gate
\* variant: no weekday gate
GateBranch_noMondayGate(text, monday, dry, force) ==
  IF ~Contains(TRIGGER_PHRASE, text) THEN "none"
  ELSE IF monday /\ ~dry /\ ~force THEN "dedup"
  ELSE "attempt"

\* variant: forceSubmit does not bypass the daily dedup
GateBranch_dedupOnForce(text, monday, dry, force) ==
  IF ~Contains(TRIGGER_PHRASE, text) THEN "none"
  ELSE IF ~(monday \/ dry \/ force) THEN "not_monday"
  ELSE IF monday /\ ~dry THEN "dedup"
  ELSE "attempt"

\* variant: the trigger phrase is matched ignoring letter case
GateBranch_caseInsensitive(text, monday, dry, force) ==
  IF ~Contains(LowerText(TRIGGER_PHRASE), LowerText(text)) THEN "none"
  ELSE IF ~(monday \/ dry \/ force) THEN "not_monday"
  ELSE IF monday /\ ~dry /\ ~force THEN "dedup"
  ELSE "attempt"

\* the branch run_check takes once the text is known: "none" (no trigger),
\* "not_monday", "dedup" (was_submitted_today() is consulted) or "attempt"
GateBranch(text, monday, dry, force) ==
  IF ~Contains(TRIGGER_PHRASE, text) THEN "none"
  ELSE IF ~(monday \/ dry \/ force) THEN "not_monday"
  ELSE IF monday /\ ~dry /\ ~force THEN "dedup"
  ELSE "attempt"

\* elif not dry_run: mark_submitted_today()
ShouldMark(ok, dry) == ok /\ ~dry

\* variant: the confirmation text is never reported
ReturnReason_submitReasonOnly(ok, conf, why) == why

\* reason = confirmation if submitted else submit_reason
ReturnReason(ok, conf, why) == IF ok THEN conf ELSE why

\* ------------------------------------------------------- scraped texts
DropChar(t, i) == SubSeq(t, 1, i - 1) \o SubSeq(t, i + 1, Len(t))

DropPositions == {1, 27, Len(TRIGGER_PHRASE)}

\* "Störung\n"
OutagePrefix == <<83, 116, 246, 114, 117, 110, 103, 10>>
\* "Netz störungsfrei"
TxtOk == <<78, 101, 116, 122, 32, 115, 116, 246, 114, 117, 110, 103, 115, 102, 114, 101, 105>>

RunTexts ==
  {TRIGGER_PHRASE, OutagePrefix \o TRIGGER_PHRASE, LowerText(TRIGGER_PHRASE),
   <<>>, TxtOk}
  \cup {DropChar(TRIGGER_PHRASE, i) : i \in DropPositions}

\* ----------------------------------------------------------------- state
VARIABLES
  day,            \* current Berlin date
  ticks,          \* midnights passed
  lastSubmitDate, \* content of data/.last_submit_date
  runs,           \* invocations of main so far
  pc,             \* position of the current invocation
  dry_run, force_submit,
  startDay,       \* date when the invocation started
  lastAtStart,    \* marker content when the invocation started
  full_text, status, is_monday,
  already,        \* "n/a" or the value was_submitted_today() returned
  submitted, confirmation, submit_reason, message_sent,
  comment,        \* text composed for the form's comment field (SpecComment)
  submitCalls,    \* calls of fill_and_submit_form in this invocation
  markCalls,      \* calls of mark_submitted_today in this invocation
  writeOutcome,   \* "none" or how the marker write of this invocation went
  markedBy,       \* "none", or the kind of run that last wrote a date
  raised,         \* exceptions raised in this invocation, with their place
  result,         \* main's status, result_text, form_submitted, reason, message_sent
  autoDay, autoCount  \* automatic runs within autoDay that returned form_submitted="yes"

vars ==
  <<day, ticks, lastSubmitDate, runs, pc, dry_run, force_submit, startDay,
    lastAtStart, full_text, status, is_monday, already, submitted,
    confirmation, submit_reason, message_sent, comment, submitCalls,
    markCalls, writeOutcome, markedBy, raised, result, autoDay, autoCount>>

locals ==
  <<full_text, status, is_monday, already, submitted, confirmation,
    submit_reason, message_sent, comment, writeOutcome>>

flags == <<dry_run, force_submit, startDay, lastAtStart, runs>>

clock == <<day, ticks>>

ghost == <<autoDay, autoCount, markedBy>>

\* main's locals before run_check is called
MainDefaults ==
  [status |-> "error", result_text |-> <<>>, form_submitted |-> "no",
   reason |-> "", message_sent |-> ""]

Init ==
  /\ day \in StartDays
  /\ ticks = 0
  /\ lastSubmitDate = NoFile
  /\ runs = 0
  /\ pc = "idle"
  /\ dry_run = FALSE /\ force_submit = FALSE
  /\ startDay = day /\ lastAtStart = NoFile
  /\ full_text = <<>> /\ status = "" /\ is_monday = FALSE
  /\ already = "n/a"
  /\ submitted = FALSE /\ confirmation = "" /\ submit_reason = ""
  /\ message_sent = "" /\ comment = <<>>
  /\ submitCalls = 0 /\ markCalls = 0 /\ raised = <<>>
  /\ writeOutcome = "none" /\ markedBy = "none"
  /\ result = MainDefaults
  /\ autoDay = day /\ autoCount = 0

\* midnight in Europe/Berlin
Tick ==
  /\ ticks < MaxTicks
  /\ day' = day + 1 /\ ticks' = ticks + 1
  /\ UNCHANGED <<lastSubmitDate, pc, flags, locals, submitCalls, markCalls,
                 raised, result, ghost>>

\* main() parses the flags and calls run_check
StartRun(dry, force) ==
  /\ pc \in {"idle", "done"}
  /\ runs < MaxRuns
  /\ runs' = runs + 1
  /\ pc' = "read"
  /\ dry_run' = dry /\ force_submit' = force
  /\ startDay' = day /\ lastAtStart' = lastSubmitDate
  /\ full_text' = <<>> /\ status' = "" /\ is_monday' = FALSE
  /\ already' = "n/a"
  /\ submitted' = FALSE /\ confirmation' = "" /\ submit_reason' = ""
  /\ message_sent' = "" /\ comment' = <<>>
  /\ submitCalls' = 0 /\ markCalls' = 0 /\ raised' = <<>>
  /\ writeOutcome' = "none"
  /\ result' = MainDefaults
  /\ UNCHANGED <<clock, lastSubmitDate, ghost>>

\* the page is read and classified; is_monday is taken from the clock
PageRead(t) ==
  /\ pc = "read"
  /\ full_text' = t
  /\ status' = classify_result(t)
  /\ is_monday' = (Weekday(day) = MONDAY)
  /\ pc' = "gate"
  /\ UNCHANGED <<clock, lastSubmitDate, flags, already, submitted,
                 confirmation, submit_reason, message_sent, comment,
                 writeOutcome, submitCalls, markCalls, raised, result, ghost>>

\* browser launch, navigation or the iframe/address lookup raises; main
\* catches it
PageReadFail(e) ==
  /\ pc = "read"
  /\ raised' = Append(raised, [where |-> "page_reader", exc |-> e])
  /\ result' = [result EXCEPT !.reason = FormatExc("error", e)]
  /\ pc' = "done"
  /\ UNCHANGED <<clock, lastSubmitDate, flags, locals, submitCalls,
                 markCalls, ghost>>

\* the gating decision of run_check
Gate(readFails) ==
  /\ pc = "gate"
  /\ LET b == GateBranch(full_text, is_monday, dry_run, force_submit)
         seen == was_submitted_today(lastSubmitDate, day, readFails)
     IN
       /\ already' = IF b # "dedup" THEN "n/a" ELSE IF seen THEN "yes" ELSE "no"
       /\ submit_reason' =
            CASE b = "not_monday" -> "outage_detected_but_form_only_on_mondays"
              [] b = "dedup" /\ seen -> "already_submitted_today"
              [] OTHER -> submit_reason
       /\ pc' = IF b = "attempt" \/ (b = "dedup" /\ ~seen) THEN "submit"
                ELSE "teardown"
  /\ UNCHANGED <<clock, lastSubmitDate, flags, full_text, status, is_monday,
                 submitted, confirmation, message_sent, comment,
                 writeOutcome, submitCalls, markCalls, raised, result, ghost>>

\* fill_and_submit_form returns; the marker is written on a real success
Submit(env, w) ==
  /\ pc = "submit"
  /\ LET r == fill_and_submit_form(env, full_text, dry_run) IN
       /\ submitted' = r[1]
       /\ confirmation' = r[2]
       /\ message_sent' = r[3]
       /\ submit_reason' = IF ~r[1] THEN r[2] ELSE submit_reason
       /\ IF ShouldMark(r[1], dry_run)
            THEN /\ lastSubmitDate' = mark_submitted_today(lastSubmitDate, day, w)
                 /\ markCalls' = markCalls + 1
                 /\ writeOutcome' = w
                 /\ markedBy' =
                      IF w # "ok" THEN markedBy
                      ELSE IF force_submit THEN "forced" ELSE "auto"
            ELSE UNCHANGED <<lastSubmitDate, markCalls, writeOutcome, markedBy>>
  /\ submitCalls' = submitCalls + 1
  /\ pc' = "teardown"
  /\ UNCHANGED <<clock, flags, full_text, status, is_monday, already,
                 comment, raised, result, autoDay, autoCount>>

\* fill_and_submit_form raises; run_check catches it
SubmitRaise(e) ==
  /\ pc = "submit"
  /\ submitted' = FALSE
  /\ submit_reason' = FormatExc("exception", e)
  /\ submitCalls' = submitCalls + 1
  /\ raised' = Append(raised, [where |-> "form_submitter", exc |-> e])
  /\ pc' = "teardown"
  /\ UNCHANGED <<clock, lastSubmitDate, flags, full_text, status, is_monday,
                 already, confirmation, message_sent, comment,
                 writeOutcome, markCalls, result, ghost>>

\* screenshots and browser.close() pass; run_check returns and main takes
\* the tuple
Return ==
  /\ pc = "teardown"
  /\ result' =
       [status |-> status, result_text |-> full_text,
        form_submitted |-> IF submitted THEN "yes" ELSE "no",
        reason |-> ReturnReason(submitted, confirmation, submit_reason),
        message_sent |-> message_sent]
  /\ IF submitted /\ ~dry_run /\ ~force_submit /\ startDay = day
       THEN /\ autoDay' = day
            /\ autoCount' = IF autoDay = day THEN autoCount + 1 ELSE 1
       ELSE UNCHANGED <<autoDay, autoCount>>
  /\ UNCHANGED markedBy
  /\ pc' = "done"
  /\ UNCHANGED <<clock, lastSubmitDate, flags, locals, submitCalls,
                 markCalls, raised>>

\* a screenshot or browser.close() raises after the gate; main catches it
TeardownFail(e) ==
  /\ pc = "teardown"
  /\ raised' = Append(raised, [where |-> "teardown", exc |-> e])
  /\ result' = [result EXCEPT !.reason = FormatExc("error", e)]
  /\ pc' = "done"
  /\ UNCHANGED <<clock, lastSubmitDate, flags, locals, submitCalls,
                 markCalls, ghost>>

Next ==
  \/ Tick
  \/ \E dry \in BOOLEAN, force \in BOOLEAN : StartRun(dry, force)
  \/ \E t \in RunTexts : PageRead(t)
  \/ \E e \in Exceptions : PageReadFail(e)
  \/ \E rf \in BOOLEAN : Gate(rf)
  \/ \E env \in FormEnvs, w \in WriteOutcomes : Submit(env, w)
  \/ \E e \in Exceptions : SubmitRaise(e)
  \/ Return
  \/ \E e \in Exceptions : TeardownFail(e)

Spec == Init /\ [][Next]_vars

\* ------------------------------------------- the classifier on its own
\* texts built as prefix + core + suffix
\* "", "Netz ", "keine ", "Wartungsarbeiten, "
ClassifyPres ==
  {<<>>, <<78, 101, 116, 122, 32>>, <<107, 101, 105, 110, 101, 32>>,
   <<87, 97, 114, 116, 117, 110, 103, 115, 97, 114, 98, 101, 105, 116, 101, 110, 44, 32>>}
\* "", "störungsfrei", "stoerungsfrei", "STÖRUNGSFREI", "Stoerungsfrei",
\* "storungsfrei", "Störung", "Stoerungen", "arbeiten",
\* "Beeinträchtigungen", "Netzarbeiten"
ClassifyCores ==
  {<<>>,
   <<115, 116, 246, 114, 117, 110, 103, 115, 102, 114, 101, 105>>,
   <<115, 116, 111, 101, 114, 117, 110, 103, 115, 102, 114, 101, 105>>,
   <<83, 84, 214, 82, 85, 78, 71, 83, 70, 82, 69, 73>>,
   <<83, 116, 111, 101, 114, 117, 110, 103, 115, 102, 114, 101, 105>>,
   <<115, 116, 111, 114, 117, 110, 103, 115, 102, 114, 101, 105>>,
   <<83, 116, 246, 114, 117, 110, 103>>,
   <<83, 116, 111, 101, 114, 117, 110, 103, 101, 110>>,
   <<97, 114, 98, 101, 105, 116, 101, 110>>,
   <<66, 101, 101, 105, 110, 116, 114, 228, 99, 104, 116, 105, 103, 117, 110, 103, 101, 110>>,
   <<78, 101, 116, 122, 97, 114, 98, 101, 105, 116, 101, 110>>}
\* "", " Störung", " x"
ClassifyPosts ==
  {<<>>, <<32, 83, 116, 246, 114, 117, 110, 103>>, <<32, 120>>}

ClassifyTexts ==
  {a \o b \o c : a \in ClassifyPres, b \in ClassifyCores, c \in ClassifyPosts}

InitClassify ==
  /\ day = 0 /\ ticks = 0 /\ lastSubmitDate = NoFile /\ runs = 0
  /\ pc = "classify"
  /\ dry_run = FALSE /\ force_submit = FALSE
  /\ startDay = 0 /\ lastAtStart = NoFile
  /\ full_text \in ClassifyTexts
  /\ status = "" /\ is_monday = FALSE /\ already = "n/a"
  /\ submitted = FALSE /\ confirmation = "" /\ submit_reason = ""
  /\ message_sent = "" /\ comment = <<>>
  /\ submitCalls = 0 /\ markCalls = 0 /\ raised = <<>>
  /\ writeOutcome = "none" /\ markedBy = "none"
  /\ result = MainDefaults
  /\ autoDay = 0 /\ autoCount = 0

Classify ==
  /\ pc = "classify"
  /\ status' = classify_result(full_text)
  /\ pc' = "classified"
  /\ UNCHANGED <<clock, lastSubmitDate, flags, full_text, is_monday, already,
                 submitted, confirmation, submit_reason, message_sent,
                 comment, writeOutcome, submitCalls, markCalls, raised,
                 result, ghost>>

NextClassify == Classify

SpecClassify == InitClassify /\ [][NextClassify]_vars

\* --------------------------------------- the comment body on its own
\* the characters sanitize() looks for
TypographicChars == {8222, 8220, 8218, 8216, 8221, 8223, 8217, 8211, 8212, 8230}

\* a suffix with low and high typographic quotes, an en dash and an ellipsis
TypographicSuffix ==
  <<32, 8222, 83, 116, 246, 114, 117, 110, 103, 8220, 32, 8211, 32, 66, 105, 116, 116, 101, 32, 119, 97, 114, 116, 101, 110, 8230>>

\* scraped texts with the trigger phrase, followed by nothing, by one of
\* the typographic characters or by several of them
CommentTexts ==
  {a \o b : a \in {TRIGGER_PHRASE, OutagePrefix \o TRIGGER_PHRASE},
            b \in {<<>>, TypographicSuffix} \cup {<<32, c>> : c \in TypographicChars}}

InitComment ==
  /\ day = 0 /\ ticks = 0 /\ lastSubmitDate = NoFile /\ runs = 0
  /\ pc = "compose"
  /\ dry_run = FALSE /\ force_submit = FALSE
  /\ startDay = 0 /\ lastAtStart = NoFile
  /\ full_text \in CommentTexts
  /\ status = "" /\ is_monday = FALSE /\ already = "n/a"
  /\ submitted = FALSE /\ confirmation = "" /\ submit_reason = ""
  /\ message_sent = "" /\ comment = <<>>
  /\ submitCalls = 0 /\ markCalls = 0 /\ raised = <<>>
  /\ writeOutcome = "none" /\ markedBy = "none"
  /\ result = MainDefaults
  /\ autoDay = 0 /\ autoCount = 0

\* message = random.choice(TEMPLATES); the comment is composed and filled in
Compose(c) ==
  /\ pc = "compose"
  /\ message_sent' = TEMPLATES[c]
  /\ comment' = comment_body(c, full_text)
  /\ pc' = "composed"
  /\ UNCHANGED <<clock, lastSubmitDate, flags, full_text, status, is_monday,
                 already, submitted, confirmation, submit_reason,
                 writeOutcome, submitCalls, markCalls, raised, result, ghost>>

NextComment == \E c \in 1..Len(TEMPLATES) : Compose(c)

SpecComment == InitComment /\ [][NextComment]_vars

\* ------------------------------------------------------------ properties
RaisedAt(w) == \E i \in 1..Len(raised) : raised[i].where = w

\* run_check returned its tuple to main
Returned == pc = "done" /\ raised \in {<<>>} \cup {<<[where |-> "form_submitter", exc |-> e]>> : e \in Exceptions}

HasTrigger == Contains(TRIGGER_PHRASE, full_text)

PastGate == pc \in {"submit", "teardown", "done"} /\ ~RaisedAt("page_reader")

TypeOK ==
  /\ pc \in {"idle", "read", "gate", "submit", "teardown", "done"}
  /\ submitCalls \in 0..1 /\ markCalls \in 0..1
  /\ result.status \in {"ok", "maintenance", "outage", "unknown", "error"}


REASON_NOT_MONDAY == "outage_detected_but_form_only_on_mondays"
REASON_ALREADY == "already_submitted_today"

Automatic == ~dry_run /\ ~force_submit

\* C1: among the automatic runs (dryRun=false, forceSubmit=false) that run
\* within one Berlin calendar day, at most one ends with a successful form
\* submission, also when reading or writing the marker file fails.
C1_AtMostOneAutoSubmissionPerDay == autoCount <= 1

\* C2 (as stated): a forced run never changes lastSubmitDate, whether or
\* not its submission succeeded.
C2_ForcedRunNeverMarks ==
  (force_submit /\ pc \in {"read", "gate", "submit", "teardown", "done"})
    => lastSubmitDate = lastAtStart

C2_Step ==
  (force_submit /\ pc \in {"read", "gate", "submit", "teardown"})
    => /\ (markCalls' = markCalls + 1) <=> (pc = "submit" /\ submitted' /\ ~dry_run)
       /\ markCalls' = markCalls => lastSubmitDate' = lastSubmitDate
       /\ markCalls' = markCalls + 1 =>
            /\ writeOutcome' = "ok" => lastSubmitDate' = day
            /\ writeOutcome' = "fail_before_open" => lastSubmitDate' = lastSubmitDate
            /\ writeOutcome' = "fail_after_truncate" => lastSubmitDate' = EmptyFile

\* C2 (amended): a forced run calls mark_submitted_today exactly when it is
\* not a dry run and the Form Submitter reported success; otherwise it
\* leaves lastSubmitDate unchanged.  When that write succeeds lastSubmitDate
\* becomes the current date, when it fails the marker keeps its content or
\* is left empty.
C2_ForcedRunMarksOnRealSuccess == [][C2_Step]_vars

\* C2 witness: after a forced run wrote today's date, an automatic run on
\* the same Monday with the trigger present was skipped as already submitted.
C2_Witness ==
  /\ Returned /\ Automatic /\ HasTrigger /\ is_monday
  /\ markedBy = "forced" /\ lastSubmitDate = day
  /\ result.reason = REASON_ALREADY

C3_Step ==
  pc \in {"read", "gate", "submit", "teardown"}
    => IF pc = "submit" /\ ~dry_run /\ submitted'
         THEN lastSubmitDate' = day /\ markCalls' = 1
         ELSE lastSubmitDate' = lastSubmitDate /\ markCalls' = markCalls

\* C3: a dry run never writes the marker; a non-dry run whose Form Submitter
\* call reports success sets lastSubmitDate to the current date, calling
\* mark_submitted_today once; a non-dry run that did not attempt or whose
\* submission failed leaves lastSubmitDate unchanged.
C3_BookKeeping == [][C3_Step]_vars

\* C4: with the trigger phrase in the text and isTriggerDay=false,
\* dryRun=false, forceSubmit=false the Form Submitter is never invoked,
\* formSubmitted is false and the reason is exactly
\* "outage_detected_but_form_only_on_mondays", whatever the marker says.
C4_MondayGating ==
  (PastGate /\ HasTrigger /\ ~is_monday /\ Automatic)
    => /\ pc # "submit" /\ submitCalls = 0 /\ markCalls = 0
       /\ ~submitted
       /\ submit_reason = REASON_NOT_MONDAY
       /\ already = "n/a"
       /\ result.form_submitted = "no"
       /\ Returned => result.reason = REASON_NOT_MONDAY

\* C4 witness: such a run returned while the marker holds today's date.
C4_Witness ==
  /\ Returned /\ HasTrigger /\ ~is_monday /\ Automatic
  /\ lastAtStart = startDay /\ lastSubmitDate = day
  /\ result.reason = REASON_NOT_MONDAY

\* C5: with the trigger present on a Monday, an automatic run for which
\* was_submitted_today() answered yes does not invoke the Form Submitter and
\* has reason "already_submitted_today"; with forceSubmit or dryRun set the
\* dedup check is not consulted and the Form Submitter is invoked, also when
\* the marker holds today's date.
C5_DailyDedup ==
  (PastGate /\ HasTrigger /\ is_monday)
    => /\ Automatic => already \in {"yes", "no"}
       /\ (Automatic /\ already = "yes")
            => /\ pc # "submit" /\ submitCalls = 0 /\ ~submitted
               /\ submit_reason = REASON_ALREADY
               /\ Returned => (result.form_submitted = "no"
                               /\ result.reason = REASON_ALREADY)
       /\ ~Automatic
            => /\ already = "n/a"
               /\ pc = "submit" \/ submitCalls = 1

\* C5 witness: a Monday automatic run was skipped as already submitted.
C5_Witness ==
  /\ Returned /\ HasTrigger /\ is_monday /\ Automatic
  /\ already = "yes" /\ lastSubmitDate = day
  /\ result.reason = REASON_ALREADY

\* C5, second case reached: a forced Monday run invoked the Form Submitter
\* although the marker held today's date when it started.
C5_ForcedReached ==
  /\ Returned /\ HasTrigger /\ is_monday /\ force_submit /\ ~dry_run
  /\ lastAtStart = startDay /\ startDay = day /\ submitCalls = 1

\* C6: when the text read from the page does not contain the trigger phrase
\* as an exact, case-sensitive substring, then for all flags and marker
\* contents the Form Submitter is never invoked, formSubmitted is false, the
\* reason is empty and the marker is unchanged.
C6_TriggerRequired ==
  (pc \in {"gate", "submit", "teardown", "done"} /\ ~RaisedAt("page_reader")
     /\ ~HasTrigger)
    => /\ pc # "submit" /\ submitCalls = 0 /\ markCalls = 0
       /\ ~submitted /\ submit_reason = "" /\ message_sent = ""
       /\ lastSubmitDate = lastAtStart
       /\ result.form_submitted = "no"
       /\ Returned => result.reason = ""

\* C6 witness: a forced Monday run returned for the trigger phrase without
\* its final character.
C6_Witness ==
  /\ Returned /\ force_submit /\ is_monday
  /\ full_text = DropChar(TRIGGER_PHRASE, Len(TRIGGER_PHRASE))
  /\ result.reason = "" /\ result.result_text = full_text

\* C6, case variant reached: the lowercased phrase does not trigger either.
C6_LowerReached ==
  /\ Returned /\ dry_run /\ full_text = LowerText(TRIGGER_PHRASE)
  /\ result.reason = ""

\* C7 (as stated): every failure raised by the Page Reader or the Form
\* Submitter surfaces as status "error".
C7_CollaboratorFailureIsError ==
  (pc = "done" /\ (RaisedAt("page_reader") \/ RaisedAt("form_submitter")))
    => result.status = "error"

\* C7 (amended): a failure raised by the Page Reader surfaces as status
\* "error" with reason "error: <kind>: <message>"; an exception raised inside
\* fill_and_submit_form is caught in run_check and the returned result keeps
\* the classifier's status (never "error"), with formSubmitted false and
\* reason "exception: <kind>: <message>".
C7_FailureSurfacing ==
  pc = "done"
    => /\ \A e \in Exceptions :
            raised = <<[where |-> "page_reader", exc |-> e]>>
              => /\ result.status = "error"
                 /\ result.form_submitted = "no"
                 /\ result.reason = "error: " \o e.kind \o ": " \o e.msg
       /\ \A e \in Exceptions :
            raised = <<[where |-> "form_submitter", exc |-> e]>>
              => /\ result.status = classify_result(full_text)
                 /\ result.status # "error"
                 /\ result.form_submitted = "no"
                 /\ result.reason = "exception: " \o e.kind \o ": " \o e.msg
                 /\ lastSubmitDate = lastAtStart

\* C7 witness: fill_and_submit_form raised and the run was reported with
\* status "outage".
C7_Witness ==
  /\ pc = "done" /\ Len(raised) = 1 /\ raised[1].where = "form_submitter"
  /\ result.status = "outage"
  /\ result.reason = "exception: TimeoutError: Timeout 60000ms exceeded"

\* C7, Page Reader case reached.
C7_PageReaderReached ==
  /\ pc = "done" /\ Len(raised) = 1 /\ raised[1].where = "page_reader"
  /\ result.status = "error"

\* C8: when the submit button was clicked but no confirmation text is
\* found, fill_and_submit_form reports failure with reason
\* "confirmation_not_found": the run has formSubmitted false and the marker
\* is not written.
C8_SuccessNeedsConfirmation ==
  (pc \in {"teardown", "done"} /\ confirmation = "confirmation_not_found")
    => /\ ~submitted
       /\ submit_reason = "confirmation_not_found"
       /\ markCalls = 0

\* C9 (as stated): in a result returned by run_check, the reason is
\* non-empty exactly when formSubmitted is false and the trigger phrase was
\* present.
C9_ReasonOnlyWhenNotSubmitted ==
  Returned
    => (result.reason # ""
          <=> (result.form_submitted = "no" /\ HasTrigger))

\* C9 (amended): in a result returned by run_check, the reason is non-empty
\* exactly when the trigger phrase was present: it is the gate's or the Form
\* Submitter's reason when formSubmitted is false and the confirmation text
\* (or "confirmation_not_found") when formSubmitted is true; it is empty
\* when no trigger was found.
C9_ReasonWhenTrigger ==
  Returned
    => /\ result.reason # "" <=> HasTrigger
       /\ result.form_submitted = "yes" <=> submitted
       /\ submitted => (result.reason = confirmation /\ submit_reason = "")
       /\ ~submitted => result.reason = submit_reason

\* C9 witness: a run returned formSubmitted true with the confirmation text
\* as its reason.
C9_Witness ==
  /\ Returned /\ result.form_submitted = "yes"
  /\ result.reason = "Vielen Dank!"

\* the lowercased text contains "störungsfrei" or an ASCII-folded spelling
\* of it ("stoerungsfrei", "storungsfrei")
HasStoerungsfreiVariant(text) ==
  LET t == LowerText(text) IN
    \/ Contains(kw_stoerungsfrei, t)
    \/ Contains(<<115, 116, 111, 101, 114, 117, 110, 103, 115, 102, 114, 101, 105>>, t)
    \/ Contains(<<115, 116, 111, 114, 117, 110, 103, 115, 102, 114, 101, 105>>, t)

\* C10: classify_result returns "ok" for every text that contains
\* "störungsfrei" or an ASCII-folded spelling variant of it, in any letter
\* case.
C10_FoldedVariantsAreOk ==
  (pc = "classified" /\ HasStoerungsfreiVariant(full_text)) => status = "ok"

\* the keywords of rule i of the classifier and the label it gives
RuleKeywords ==
  <<{kw_stoerungsfrei},
    {kw_keine_stoerung_uml, kw_keine_stoerung_oe,
     kw_keine_stoerungen_uml, kw_keine_stoerungen_oe},
    {kw_wartungsarbeiten, kw_netzarbeiten, kw_arbeiten, kw_beeintraechtigungen},
    {kw_stoerung_uml, kw_stoerung_oe}>>

RuleLabels == <<"ok", "ok", "maintenance", "outage">>

RuleMatches(i, text) ==
  \E k \in RuleKeywords[i] : Contains(k, LowerText(text))

\* C11: classify_result returns exactly one of ok, maintenance, outage,
\* unknown: the label of the first rule, in the order 1..4, one of whose
\* keywords occurs in the lowercased text, and unknown when none does; a
\* text with both "störungsfrei" and "störung" is ok and the empty text is
\* unknown.
C11_FirstMatchWins ==
  pc = "classified"
    => /\ status \in {"ok", "maintenance", "outage", "unknown"}
       /\ \A i \in 1..4 :
            (RuleMatches(i, full_text)
               /\ \A j \in 1..(i - 1) : ~RuleMatches(j, full_text))
              => status = RuleLabels[i]
       /\ (\A i \in 1..4 : ~RuleMatches(i, full_text)) => status = "unknown"
       /\ full_text = <<>> => status = "unknown"

\* C11 witness: "störungsfrei Störung" (rules 1 and 4 both match) was
\* classified as ok.
C11_Witness ==
  /\ pc = "classified"
  /\ full_text = kw_stoerungsfrei \o <<32, 83, 116, 246, 114, 117, 110, 103>>
  /\ RuleMatches(1, full_text) /\ RuleMatches(4, full_text)
  /\ status = "ok"

\* C11, empty text reached.
C11_EmptyReached == pc = "classified" /\ full_text = <<>> /\ status = "unknown"

\* the index of the template whose text was returned as message
TemplateOf(m) == CHOOSE c \in 1..Len(TEMPLATES) : TEMPLATES[c] = m

\* C12 (as stated): the comment filled into the form equals
\* template + "\n\n" + the full scraped text, character for character, also
\* for texts with typographic quotes, dashes or an ellipsis.
C12_CommentIsVerbatim ==
  pc = "composed"
    => comment = TEMPLATE_TEXTS[TemplateOf(message_sent)] \o <<10, 10>> \o full_text

\* the text with the typographic characters replaced one by one
RECURSIVE AsciiFolded(_)
AsciiFolded(t) ==
  IF t = <<>> THEN <<>>
  ELSE (CASE Head(t) \in {8222, 8220, 8221, 8223} -> <<34>>
          [] Head(t) \in {8218, 8216, 8217} -> <<39>>
          [] Head(t) \in {8211, 8212} -> <<45>>
          [] Head(t) = 8230 -> <<46, 46, 46>>
          [] OTHER -> <<Head(t)>>) \o AsciiFolded(Tail(t))

\* C12 (amended): the comment equals template + "\n\n" + the scraped text
\* in which every typographic double quote is replaced by ", every
\* typographic single quote by ', every en or em dash by - and every
\* ellipsis by three full stops; the template is one of TEMPLATES and is
\* filled in unchanged, and the comment equals template + "\n\n" + text
\* character for character exactly when the text has none of these
\* characters.
C12_CommentIsSanitized ==
  pc = "composed"
    => /\ \E c \in 1..Len(TEMPLATES) : message_sent = TEMPLATES[c]
       /\ LET tpl == TEMPLATE_TEXTS[TemplateOf(message_sent)] IN
            /\ comment = tpl \o <<10, 10>> \o AsciiFolded(full_text)
            /\ (comment = tpl \o <<10, 10>> \o full_text)
                 <=> (\A i \in 1..Len(full_text) : full_text[i] \notin TypographicChars)
       /\ \A i \in 1..Len(comment) : comment[i] \notin TypographicChars

\* C12 witness: a comment was composed for a text with typographic quotes,
\* a dash and an ellipsis, and differs from the verbatim text.
C12_Witness ==
  /\ pc = "composed"
  /\ full_text = TRIGGER_PHRASE \o TypographicSuffix
  /\ Len(comment) = Len(TEMPLATE_TEXTS[TemplateOf(message_sent)]) + 2 + Len(full_text) + 2
  /\ SubSeq(comment, Len(comment) - 2, Len(comment)) = <<46, 46, 46>>

\* C12, plain text reached: the comment is the verbatim composition.
C12_PlainReached ==
  /\ pc = "composed" /\ full_text = TRIGGER_PHRASE
  /\ comment = TEMPLATE_TEXTS[TemplateOf(message_sent)] \o <<10, 10>> \o full_text

\* C13: in every run in which mark_submitted_today was called and wrote
\* today's date, the result main logs and prints for that run has
\* form_submitted "yes" and a status other than "error", also when a later
\* step of run_check such as browser.close() raises.
C13_MarkerAndResultAgree ==
  (pc = "done" /\ markCalls = 1 /\ writeOutcome = "ok")
    => /\ result.form_submitted = "yes"
       /\ result.status # "error"

====
